---------------------------- MODULE Spec2Model ----------------------------
(***************************************************************************)
(* Model of njdot/crashes.py: mile-post geocoding (geocode_mp), the        *)
(* reported/interpolated lat-lon merge (Crashes.lls), the cached views of  *)
(* LLCrashes (nj_mask, njs, nj, nnj, ll_hist) and county assignment        *)
(* (map_df).                                                               *)
(*                                                                         *)
(* A nullable value is a sequence of length 0 (missing, pandas NaN/None)   *)
(* or 1 (present).  A DataFrame is a function from its index (the record   *)
(* identifiers, unique) to rows; a row is a record of its columns.         *)
(***************************************************************************)
EXTENDS Integers, Sequences, FiniteSets, TLC

VARIABLES
    pc,        \* position of the running call: "start", "done"
    g_r,       \* geocode_mp: the row (sri, mp) passed in
    g_sris,    \* geocode_mp: the mile-post table passed in
    g_out,     \* geocode_mp: the returned dict
    l_df,      \* Crashes.lls: self.df, columns sri, mp, lat, lon, severity
    l_arg,     \* Crashes.lls: the `default` argument, "none" when omitted
    l_res,     \* Crashes.lls: the raised exception or the returned LLCrashes.df
    v_df,      \* LLCrashes: self.df, columns lat, lon, severity
    v_box,     \* is_nj_ll: the highest latitude inside the region
    v_cache,   \* LLCrashes: the instance's cached properties
    v_ret,     \* LLCrashes: what the last property access returned or raised
    v_sets,    \* LLCrashes: how often self.df was assigned
    m_df,      \* map_df: the frame passed in, columns sri, mp, olat, olon
    m_res      \* map_df: the raised exception or the returned frame

lls_vars == <<l_df, l_arg, l_res>>
view_vars == <<v_df, v_box, v_cache, v_ret, v_sets>>
map_vars == <<m_df, m_res>>
vars == <<pc, g_r, g_sris, g_out, l_df, l_arg, l_res,
          v_df, v_box, v_cache, v_ret, v_sets, m_df, m_res>>

---------------------------------------------------------------------------
(* Bounds of the model *)
MaxMp == 1
MaxCoord == 1
MaxRecs == 2
MaxLlsRecs == 3
MaxSets == 1
MaxGrid == 2
SqrtScale == 100

---------------------------------------------------------------------------
(* Nullable values *)
NA == <<>>
Some(v) == <<v>>
isna(x) == x = NA
val(x) == x[1]
Nullable(S) == {NA} \cup {Some(v) : v \in S}

PartialFns(D, R) == UNION {[S -> R] : S \in SUBSET D}

---------------------------------------------------------------------------
(* geocode_mp *)
Routes == {"A", "B"}
TableRoutes == {"A"}
Mps == 0..MaxMp
Coords == 1..MaxCoord
Grid == 1..MaxGrid
LLs == [lat : Grid, lon : Grid]

\* asdict(ll) of the table's LL dataclass
asdict(ll) == [lat |-> ll.lat, lon |-> ll.lon]

\* mutant: the mile-post is tested before the route identifier
geocode_mp_swapped(r, sris) ==
    IF isna(r.mp) THEN [reason |-> "No MP"]
    ELSE IF isna(r.sri) THEN [reason |-> "No SRI"]
    ELSE IF val(r.sri) \notin DOMAIN sris THEN [reason |-> "SRI not found"]
    ELSE LET mp_lls == sris[val(r.sri)]
         IN  IF val(r.mp) \in DOMAIN mp_lls
             THEN asdict(mp_lls[val(r.mp)])
             ELSE [reason |-> "MP didn't geocode"]

\* mp_lls.get(mp) is None (falsy) exactly when mp is no key of mp_lls; a stored
\* LL dataclass instance is always truthy.
geocode_mp(r, sris) ==
    IF isna(r.sri) THEN [reason |-> "No SRI"]
    ELSE IF isna(r.mp) THEN [reason |-> "No MP"]
    ELSE IF val(r.sri) \notin DOMAIN sris THEN [reason |-> "SRI not found"]
    ELSE LET mp_lls == sris[val(r.sri)]
         IN  IF val(r.mp) \in DOMAIN mp_lls
             THEN asdict(mp_lls[val(r.mp)])
             ELSE [reason |-> "MP didn't geocode"]

GeoRows == [sri : Nullable(Routes), mp : Nullable(Mps)]
GeoTables == PartialFns(TableRoutes, PartialFns(Mps, LLs))
Unset == [unset |-> TRUE]

LlsIdle == l_df = <<>> /\ l_arg = "none" /\ l_res = Unset
ViewsIdle ==
    v_df = <<>> /\ v_box = 0 /\ v_cache = <<>> /\ v_ret = Unset /\ v_sets = 0
MapIdle == m_df = <<>> /\ m_res = Unset
GeoIdle == g_r = [sri |-> NA, mp |-> NA] /\ g_sris = <<>> /\ g_out = Unset

InitGeocode ==
    /\ pc = "start"
    /\ LlsIdle /\ ViewsIdle /\ MapIdle
    /\ g_r \in GeoRows
    /\ g_sris \in GeoTables
    /\ g_out = Unset

GeocodeMp ==
    /\ pc = "start"
    /\ g_out' = geocode_mp(g_r, g_sris)
    /\ pc' = "done"
    /\ UNCHANGED <<g_r, g_sris, lls_vars, view_vars, map_vars>>

NextGeocode == GeocodeMp

SpecGeocode == InitGeocode /\ [][NextGeocode]_vars

---------------------------------------------------------------------------
(* Crashes.lls *)
Ids == 1..MaxRecs
Policies == {"i", "o", "io", "oi"}

\* get_mp05_map(): the mile-post table, built outside this file
mp05_map == [r \in {"A"} |-> [m \in {0} |-> [lat |-> 2, lon |-> 2]]]

\* DF(sxs(df.sri, df.mp).apply(geocode_mp, sris=mp05_map, axis=1).tolist(),
\*    index=df.index): one dict per row
geocoded(df, sris) ==
    [id \in DOMAIN df |-> geocode_mp([sri |-> df[id].sri, mp |-> df[id].mp], sris)]

\* the columns of a DataFrame built from a list of dicts: the union of the keys
columns(ll) == UNION {DOMAIN ll[id] : id \in DOMAIN ll}

\* ll[k] for a column the frame has: NaN where the row's dict lacks the key
column(ll, k) ==
    [id \in DOMAIN ll |-> IF k \in DOMAIN ll[id] THEN Some(ll[id][k]) ELSE NA]

\* io = i.copy(); io.loc[yes_o & no_i] = o
io_col(o, i) ==
    [id \in DOMAIN i |-> IF ~isna(o[id]) /\ isna(i[id]) THEN o[id] ELSE i[id]]

\* oi = o.copy(); oi.loc[no_o & yes_i] = i
oi_col(o, i) ==
    [id \in DOMAIN o |-> IF isna(o[id]) /\ ~isna(i[id]) THEN i[id] ELSE o[id]]

\* { 'i': i, 'o': o, 'io': io, 'oi': oi }[default]
default_col(default, o, i) ==
    CASE default = "i" -> i
      [] default = "o" -> o
      [] default = "io" -> io_col(o, i)
      [] default = "oi" -> oi_col(o, i)

\* mutant: the latitude takes the opposite fallback of the longitude
replace_mixed(df, ll, k, default) ==
    LET o == [id \in DOMAIN df |-> df[id][k]]
        i == column(ll, k)
        d == IF k = "lat" /\ default = "io" THEN "oi"
             ELSE IF k = "lat" /\ default = "oi" THEN "io" ELSE default
    IN  [oi |-> oi_col(o, i), col |-> default_col(d, o, i)]

\* replace(k): the columns it writes, with types = ['oi']: df[f'oi{k}'], df[k]
replace(df, ll, k, default) ==
    LET o == [id \in DOMAIN df |-> df[id][k]]
        i == column(ll, k)
    IN  [oi |-> oi_col(o, i), col |-> default_col(default, o, i)]

\* mutant: filters on the latitude
retained_by_lat(df) == {id \in DOMAIN df : ~isna(df[id].lat)}

\* df = df[~df.lon.isna()]
retained(df) == {id \in DOMAIN df : ~isna(df[id].lon)}

\* the signature's default: def lls(self, default='io', types=None)
lls_default == "io"

lls(df, default) ==
    LET ll == geocoded(df, mp05_map)
        n == Cardinality(DOMAIN df)
    IN  IF Cardinality(DOMAIN ll) # n THEN [exc |-> "RuntimeError"]
        ELSE IF "lat" \notin columns(ll) \/ "lon" \notin columns(ll)
        THEN [exc |-> "KeyError"]
        ELSE LET lat == replace(df, ll, "lat", default)
                 lon == replace(df, ll, "lon", default)
                 merged == [id \in DOMAIN df |->
                              [sri |-> df[id].sri, mp |-> df[id].mp,
                               severity |-> df[id].severity,
                               oilat |-> lat.oi[id], lat |-> lat.col[id],
                               oilon |-> lon.oi[id], lon |-> lon.col[id]]]
             IN  [exc |-> "none",
                  df |-> [id \in retained(merged) |-> merged[id]]]

\* (sri, mp) of a row that does not geocode and of one that does under
\* mp05_map; lls reads only the lat and lon of what geocode_mp returns
LlsKeys == {<<NA, NA>>, <<Some("A"), Some(0)>>}
LlsRows == {[sri |-> key[1], mp |-> key[2], lat |-> la, lon |-> lo,
             severity |-> Some("injury")] :
               key \in LlsKeys, la \in Nullable(Coords), lo \in Nullable(Coords)}
\* non-empty frames with a unique index
LlsFrames == UNION {[S -> LlsRows] : S \in SUBSET (1..MaxLlsRecs) \ {{}}}

Init ==
    /\ pc = "start"
    /\ GeoIdle
    /\ l_df \in LlsFrames
    /\ l_arg = "none"
    /\ l_res = Unset
    /\ ViewsIdle /\ MapIdle

Lls(arg) ==
    /\ pc = "start"
    /\ l_arg' = arg
    /\ l_res' = lls(l_df, IF arg = "none" THEN lls_default ELSE arg)
    /\ pc' = "done"
    /\ UNCHANGED <<g_r, g_sris, g_out, l_df, view_vars, map_vars>>

Next == \E arg \in Policies \cup {"none"} : Lls(arg)

Spec == Init /\ [][Next]_vars

\* the interpolated and the reported value of a row of the input, per axis
ival(id, k) == column(geocoded(l_df, mp05_map), k)[id]
oval(id, k) == l_df[id][k]
returned == pc = "done" /\ l_res # Unset /\ l_res.exc = "none"

---------------------------------------------------------------------------
(* LLCrashes *)
Severities == {"fatal", "injury"}
\* rows at the points (c, c), with the latitude there or missing, and a
\* severity or none; the longitude is present (lls keeps no other row)
ViewRows ==
    UNION {{[lat |-> la, lon |-> Some(c), severity |-> s] :
               la \in {NA, Some(c)}, s \in Nullable(Severities)} : c \in Coords}
ViewFrames == UNION {[S -> ViewRows] : S \in SUBSET Ids}

\* is_nj_ll(lat, lon): a bounding test, false on a missing coordinate
is_nj_ll(lat, lon, box) == ~isna(lat) /\ ~isna(lon) /\ val(lat) <= box

\* self.df.apply(lambda r: is_nj_ll(r.lat, r.lon), axis=1)
nj_mask(df, box) == [id \in DOMAIN df |-> is_nj_ll(df[id].lat, df[id].lon, box)]

\* df[mask] with a boolean Series: the Series is aligned to df's index and an
\* index label of df it lacks raises IndexingError
alignable(df, mask) == DOMAIN df \subseteq DOMAIN mask
select(df, mask) == [id \in {x \in DOMAIN df : mask[x]} |-> df[id]]

\* mutant: the outside subset is taken by a second test that skips rows
\* without a latitude
njs_skipping_na(df, mask) ==
    [nj |-> select(df, mask),
     nnj |-> select(df, [id \in DOMAIN mask |->
                           ~mask[id] /\ (id \in DOMAIN df => ~isna(df[id].lat))])]

\* nnj = df[~nj_mask]; nj = df[nj_mask]; return nj, nnj
njs(df, mask) ==
    [nj |-> select(df, mask),
     nnj |-> select(df, [id \in DOMAIN mask |-> ~mask[id]])]

\* the rows of a frame in index order
RECURSIVE order(_)
order(S) ==
    IF S = {} THEN <<>>
    ELSE LET m == CHOOSE x \in S : \A y \in S : x <= y
         IN  <<m>> \o order(S \ {m})

key(row) == <<row.lon, row.lat, row.severity>>
has_na(row) == isna(row.lon) \/ isna(row.lat) \/ isna(row.severity)

\* mutant: value_counts(dropna=False)
value_counts_keepna(df) ==
    [t \in {key(df[id]) : id \in DOMAIN df} |->
        Cardinality({id \in DOMAIN df : key(df[id]) = t})]

\* self[['lon', 'lat', 'severity']].value_counts(): rows holding a NaN are not
\* counted (dropna=True)
value_counts(df) ==
    [t \in {key(df[id]) : id \in {x \in DOMAIN df : ~has_na(df[x])}} |->
        Cardinality({id \in DOMAIN df : key(df[id]) = t})]

\* math.sqrt, to SqrtScale-ths
sqrt(n) ==
    CHOOSE r \in 0..((n + 1) * SqrtScale) :
        r * r <= n * SqrtScale * SqrtScale /\ n * SqrtScale * SqrtScale < (r + 1) * (r + 1)

\* merge(lls_count.reset_index(), on=[...], how='left'); fillna(0); sqrt: one
\* row per left row, in order, under a new RangeIndex
ll_hist(df) ==
    LET counts == value_counts(df)
        ids == order(DOMAIN df)
        lls_count(row) == IF key(row) \in DOMAIN counts THEN counts[key(row)] ELSE 0
    IN  [n \in 1..Len(ids) |->
            [lat |-> df[ids[n]].lat, lon |-> df[ids[n]].lon,
             severity |-> df[ids[n]].severity,
             lls_count |-> lls_count(df[ids[n]]),
             radius |-> sqrt(lls_count(df[ids[n]]))]]

\* cached_property: the value stored on the instance under the property's
\* name is returned; else the method runs and its result is stored
Views == {"nj_mask", "njs", "nj", "nnj", "ll_hist"}
NoCache == [view \in Views |-> <<>>]
hit(c, view) == [cache |-> c, exc |-> "none", val |-> c[view][1]]
store(c, view, v) == [cache |-> [c EXCEPT ![view] = <<v>>], exc |-> "none", val |-> v]
raise(c, e) == [cache |-> c, exc |-> e]

get_nj_mask(c, df, box) ==
    IF c["nj_mask"] # <<>> THEN hit(c, "nj_mask")
    ELSE store(c, "nj_mask", nj_mask(df, box))

get_njs(c, df, box) ==
    IF c["njs"] # <<>> THEN hit(c, "njs")
    ELSE LET m == get_nj_mask(c, df, box)
         IN  IF ~alignable(df, m.val) THEN raise(m.cache, "IndexingError")
             ELSE store(m.cache, "njs", njs(df, m.val))

get_nj(c, df, box) ==
    IF c["nj"] # <<>> THEN hit(c, "nj")
    ELSE LET s == get_njs(c, df, box)
         IN  IF s.exc # "none" THEN s ELSE store(s.cache, "nj", s.val.nj)

get_nnj(c, df, box) ==
    IF c["nnj"] # <<>> THEN hit(c, "nnj")
    ELSE LET s == get_njs(c, df, box)
         IN  IF s.exc # "none" THEN s ELSE store(s.cache, "nnj", s.val.nnj)

get_ll_hist(c, df) ==
    IF c["ll_hist"] # <<>> THEN hit(c, "ll_hist")
    ELSE store(c, "ll_hist", ll_hist(df))

get(view, c, df, box) ==
    CASE view = "nj_mask" -> get_nj_mask(c, df, box)
      [] view = "njs" -> get_njs(c, df, box)
      [] view = "nj" -> get_nj(c, df, box)
      [] view = "nnj" -> get_nnj(c, df, box)
      [] view = "ll_hist" -> get_ll_hist(c, df)

InitViews ==
    /\ pc = "start"
    /\ GeoIdle
    /\ LlsIdle /\ MapIdle
    /\ v_df \in ViewFrames
    /\ v_box \in 0..MaxCoord
    /\ v_cache = NoCache
    /\ v_ret = Unset
    /\ v_sets = 0

Access(view) ==
    LET r == get(view, v_cache, v_df, v_box)
    IN  /\ v_cache' = r.cache
        /\ v_ret' = IF r.exc = "none"
                    THEN [view |-> view, exc |-> "none", val |-> r.val]
                    ELSE [view |-> view, exc |-> r.exc]
        /\ UNCHANGED <<pc, g_r, g_sris, g_out, lls_vars, map_vars, v_df, v_box, v_sets>>

AccessNjMask == Access("nj_mask")
AccessNjs == Access("njs")
AccessNj == Access("nj")
AccessNnj == Access("nnj")
AccessLlHist == Access("ll_hist")

\* obj.df = df: the dataclass is not frozen, nothing else is touched
SetDf ==
    /\ v_sets < MaxSets
    /\ \E df \in ViewFrames : v_df' = df
    /\ v_sets' = v_sets + 1
    /\ v_ret' = Unset
    /\ UNCHANGED <<pc, g_r, g_sris, g_out, lls_vars, map_vars, v_box, v_cache>>

\* one LLCrashes object and its record set
NextViews ==
    AccessNjMask \/ AccessNjs \/ AccessNj \/ AccessNnj \/ AccessLlHist

\* the same object with its record set replaced up to MaxSets times
NextViewsSet ==
    \/ AccessNjMask \/ AccessNjs \/ AccessNj \/ AccessNnj \/ AccessLlHist
    \/ SetDf

SpecViews == InitViews /\ [][NextViews]_vars

SpecViewsSet == InitViews /\ [][NextViewsSet]_vars

---------------------------------------------------------------------------
\* the policy in force for the call that was made
policy == IF l_arg = "none" THEN lls_default ELSE l_arg

\* interpolated when present, else reported
interpolated_first(id, k) == IF ~isna(ival(id, k)) THEN ival(id, k) ELSE oval(id, k)
\* reported when present, else interpolated
reported_first(id, k) == IF ~isna(oval(id, k)) THEN oval(id, k) ELSE ival(id, k)

\* C1: under policy `oi` the canonical lat and lon of every record are the
\* interpolated value when it is present and the reported value otherwise;
\* under `io` they are the reported value when it is present and the
\* interpolated value otherwise.
C1_FallbackAsNamed ==
    (returned /\ l_arg \in {"oi", "io"}) =>
        \A id \in DOMAIN l_res.df : \A k \in {"lat", "lon"} :
            l_res.df[id][k] = IF l_arg = "oi" THEN interpolated_first(id, k)
                              ELSE reported_first(id, k)

\* C2: a call without a policy gives what a call with policy `oi` gives
C2_DefaultIsOi ==
    (pc = "done" /\ l_arg = "none") => l_res = lls(l_df, "oi")

\* whether policy p leaves a row with a canonical longitude
has_lon(p, id) ==
    CASE p = "o" -> ~isna(oval(id, "lon"))
      [] p = "i" -> ~isna(ival(id, "lon"))
      [] p \in {"io", "oi"} -> ~isna(oval(id, "lon")) \/ ~isna(ival(id, "lon"))

\* C4: after lls has returned, under any policy, the retained rows are exactly
\* the input rows whose canonical longitude is present: none retained has a
\* missing lon, and under `oi` and `io` a row is dropped iff its reported and
\* its interpolated longitude are both missing.
C4_RetainedIffLon ==
    returned =>
        /\ DOMAIN l_res.df \subseteq DOMAIN l_df
        /\ \A id \in DOMAIN l_res.df : ~isna(l_res.df[id].lon)
        /\ \A id \in DOMAIN l_df : id \in DOMAIN l_res.df <=> has_lon(policy, id)

\* C4 witness: under `oi`, a row with only a reported longitude is retained
\* and a row with neither is dropped
C4_Witness ==
    /\ returned /\ l_arg = "oi"
    /\ \E id \in DOMAIN l_res.df :
          /\ ~isna(oval(id, "lon")) /\ isna(ival(id, "lon"))
          /\ isna(oval(id, "lat"))
    /\ \E id \in DOMAIN l_df \ DOMAIN l_res.df :
          isna(oval(id, "lon")) /\ isna(ival(id, "lon"))

\* C9: an already-reconciled frame (every lon present) whose lat/lon are the
\* reported coordinates, with no row geocoding, reconciled with policy `o`:
\* the call completes and returns the same rows with the same lat/lon.
C9_IdempotentUnderO ==
    (/\ pc = "done" /\ l_arg = "o"
     /\ \A id \in DOMAIN l_df :
           /\ ~isna(oval(id, "lon"))
           /\ isna(ival(id, "lat")) /\ isna(ival(id, "lon")))
    => /\ l_res.exc = "none"
       /\ DOMAIN l_res.df = DOMAIN l_df
       /\ \A id \in DOMAIN l_df :
             /\ l_res.df[id].lat = l_df[id].lat
             /\ l_res.df[id].lon = l_df[id].lon

\* the canonical pair of a retained row is the reported pair or the
\* interpolated pair, and its latitude is present
same_source(id) ==
    /\ \/ /\ l_res.df[id].lat = oval(id, "lat")
          /\ l_res.df[id].lon = oval(id, "lon")
       \/ /\ l_res.df[id].lat = ival(id, "lat")
          /\ l_res.df[id].lon = ival(id, "lon")
    /\ ~isna(l_res.df[id].lat)

\* a source with both axes present or both missing
paired(id) ==
    /\ isna(oval(id, "lat")) <=> isna(oval(id, "lon"))
    /\ isna(ival(id, "lat")) <=> isna(ival(id, "lon"))

\* C10 as stated: for every retained row, whatever the per-axis presence of
\* the two sources, lat and lon come from the same source and lat is present
C10_SameSourceAlways ==
    returned => \A id \in DOMAIN l_res.df : same_source(id)

\* C10 amended: for every retained row each of whose sources has both axes
\* present or both missing, lat and lon come from the same source and lat is
\* present
C10_SameSourceWhenPaired ==
    returned => \A id \in DOMAIN l_res.df : paired(id) => same_source(id)

\* C10 witness: a retained row with both sources fully present and different
C10_Witness ==
    /\ returned /\ l_arg \in {"io", "oi"}
    /\ \E id \in DOMAIN l_res.df :
          /\ ~isna(oval(id, "lat")) /\ ~isna(oval(id, "lon"))
          /\ ~isna(ival(id, "lat")) /\ ~isna(ival(id, "lon"))
          /\ oval(id, "lat") # ival(id, "lat")

---------------------------------------------------------------------------
(* map_df *)
\* get_county_geometries(): county name -> polygon, as the set of the
\* <<lon, lat>> grid points it contains; the polygons do not overlap
county_geometries ==
    [c \in {"Essex", "Hudson"} |->
        IF c = "Essex" THEN {<<1, 1>>, <<1, 2>>} ELSE {<<2, 2>>}]

\* njdot.data.cn2cc: county name -> county code
cn2cc == [c \in {"Essex", "Hudson"} |-> IF c = "Essex" THEN 7 ELSE 9]

\* Crashes.gdf(tpe): gpd.points_from_xy(x=df[f'{tpe}lon'], y=df[f'{tpe}lat'])
gdf(df, tpe) == [id \in DOMAIN df |-> <<df[id][tpe \o "lon"], df[id][tpe \o "lat"]>>]

\* sjoin(points, cg): inner join, one row <<id, county>> per polygon that
\* intersects the point; a point with a NaN coordinate intersects none
sjoin(geometry, cg) ==
    {j \in (DOMAIN geometry) \X (DOMAIN cg) :
        /\ ~isna(geometry[j[1]][1]) /\ ~isna(geometry[j[1]][2])
        /\ <<val(geometry[j[1]][1]), val(geometry[j[1]][2])>> \in cg[j[2]]}

\* mutant: the joined rows are attached by position, not by index label
sxs_positional(df, joined) ==
    LET ids == order(DOMAIN df)
        hits == order({j[1] : j \in joined})
        pos(id) == CHOOSE n \in 1..Len(ids) : ids[n] = id
    IN  [id \in DOMAIN df |->
            IF pos(id) <= Len(hits)
            THEN Some(CHOOSE c \in {j[2] : j \in joined} : <<hits[pos(id)], c>> \in joined)
            ELSE NA]

\* sxs(df, joined.ocn): concat along axis 1 aligns on the index; rows of df
\* without a joined row get NaN
sxs(df, joined) ==
    [id \in DOMAIN df |->
        IF \E j \in joined : j[1] = id
        THEN Some(CHOOSE c \in {j[2] : j \in joined} : <<id, c>> \in joined)
        ELSE NA]

\* a joined index with a repeated label cannot be aligned
unique_index(joined) == \A j1, j2 \in joined : j1[1] = j2[1] => j1 = j2

\* with_ocn.ocn.map(cn2cc).astype('Int8'): NaN where the name is no key
map_cn2cc(cn) ==
    [id \in DOMAIN cn |->
        IF ~isna(cn[id]) /\ val(cn[id]) \in DOMAIN cn2cc
        THEN Some(cn2cc[val(cn[id])]) ELSE NA]

\* Crashes.mp_lls(append=True): the geocoded columns, lat/lon renamed to
\* ilat/ilon, beside df
mp_lls(df) ==
    LET ll == geocoded(df, mp05_map)
    IN  [columns |-> {IF k = "lat" THEN "ilat" ELSE IF k = "lon" THEN "ilon" ELSE k :
                        k \in columns(ll)},
         ilat |-> column(ll, "lat"), ilon |-> column(ll, "lon"),
         reason |-> column(ll, "reason")]

map_df(df) ==
    LET joined == sjoin(gdf(df, "o"), county_geometries)
    IN  IF ~unique_index(joined) THEN [exc |-> "InvalidIndexError"]
        ELSE
        LET occ == map_cn2cc(sxs(df, joined))
            ill == mp_lls(df)
        IN  IF ~({"ilon", "ilat"} \subseteq ill.columns) THEN [exc |-> "KeyError"]
            ELSE
            LET i_df == [id \in DOMAIN df |->
                            [ilat |-> ill.ilat[id], ilon |-> ill.ilon[id]]]
                ij == sjoin(gdf(i_df, "i"), county_geometries)
            IN  IF ~unique_index(ij) THEN [exc |-> "InvalidIndexError"]
                ELSE
                LET icc == map_cn2cc(sxs(i_df, ij))
                IN  [exc |-> "none",
                     df |-> [id \in DOMAIN df |->
                               [sri |-> df[id].sri, mp |-> df[id].mp,
                                olat |-> df[id].olat, olon |-> df[id].olon,
                                occ |-> occ[id],
                                ilat |-> ill.ilat[id], ilon |-> ill.ilon[id],
                                reason |-> ill.reason[id],
                                icc |-> icc[id]]]]

MapKeys == {<<NA, NA>>, <<Some("A"), Some(1)>>, <<Some("A"), Some(0)>>}
MapRows == {[sri |-> k[1], mp |-> k[2], olat |-> la, olon |-> lo] :
               k \in MapKeys, la \in Nullable(Grid), lo \in Nullable(Grid)}
MapFrames == UNION {[S -> MapRows] : S \in SUBSET Ids \ {{}}}

InitMapDf ==
    /\ pc = "start"
    /\ GeoIdle /\ LlsIdle /\ ViewsIdle
    /\ m_df \in MapFrames
    /\ m_res = Unset

MapDf ==
    /\ pc = "start"
    /\ m_res' = map_df(m_df)
    /\ pc' = "done"
    /\ UNCHANGED <<g_r, g_sris, g_out, lls_vars, view_vars, m_df>>

NextMapDf == MapDf

SpecMapDf == InitMapDf /\ [][NextMapDf]_vars

---------------------------------------------------------------------------
\* the code of the county whose polygon contains the point, if any
county_code(lat, lon) ==
    IF isna(lat) \/ isna(lon) THEN NA
    ELSE LET cs == {c \in DOMAIN county_geometries :
                      <<val(lon), val(lat)>> \in county_geometries[c]}
         IN  IF cs = {} THEN NA ELSE Some(cn2cc[CHOOSE c \in cs : TRUE])

\* the interpolated coordinate of a row of the input
m_ival(id, k) ==
    LET g == geocode_mp([sri |-> m_df[id].sri, mp |-> m_df[id].mp], mp05_map)
    IN  IF k \in DOMAIN g THEN Some(g[k]) ELSE NA

\* C8: after map_df has returned, every input record is in the output exactly
\* once under its own identifier with its own columns; occ is the code of the
\* county containing its reported coordinate and icc the code of the county
\* containing its interpolated coordinate; a record whose coordinate is
\* missing or in no polygon has a missing code for that variant and is kept.
C8_CountyById ==
    (pc = "done" /\ m_res # Unset /\ m_res.exc = "none") =>
        /\ DOMAIN m_res.df = DOMAIN m_df
        /\ \A id \in DOMAIN m_df :
              /\ m_res.df[id].sri = m_df[id].sri /\ m_res.df[id].mp = m_df[id].mp
              /\ m_res.df[id].olat = m_df[id].olat
              /\ m_res.df[id].olon = m_df[id].olon
              /\ m_res.df[id].occ = county_code(m_df[id].olat, m_df[id].olon)
              /\ m_res.df[id].icc = county_code(m_ival(id, "lat"), m_ival(id, "lon"))

\* C8 witness: a record whose reported and interpolated counties differ, and
\* before it a record with no reported county and no interpolated coordinate
C8_Witness ==
    /\ pc = "done" /\ m_res # Unset /\ m_res.exc = "none"
    /\ \E a, b \in DOMAIN m_res.df :
          /\ a < b
          /\ isna(m_res.df[a].occ) /\ isna(m_res.df[a].icc)
          /\ ~isna(m_df[a].olat) /\ ~isna(m_df[a].olon)
          /\ ~isna(m_res.df[b].occ) /\ ~isna(m_res.df[b].icc)
          /\ m_res.df[b].occ # m_res.df[b].icc

---------------------------------------------------------------------------
\* the property `view` was computed by this step, not served from the cache
computed(view) == v_cache[view] = <<>> /\ v_cache'[view] # <<>>

\* inside and outside are disjoint, every row of df is in exactly one of
\* them, unchanged, and the sizes add up
is_partition(p, df) ==
    /\ DOMAIN p.nj \cap DOMAIN p.nnj = {}
    /\ DOMAIN p.nj \cup DOMAIN p.nnj = DOMAIN df
    /\ \A id \in DOMAIN p.nj : p.nj[id] = df[id]
    /\ \A id \in DOMAIN p.nnj : p.nnj[id] = df[id]
    /\ Cardinality(DOMAIN p.nj) + Cardinality(DOMAIN p.nnj) = Cardinality(DOMAIN df)

\* C5: whenever njs is computed, the inside and outside subsets are disjoint,
\* their union is exactly the record set of the object, each record is in
\* exactly one of them, and len(inside) + len(outside) = len(records).
C5_Partition ==
    [][computed("njs") => is_partition(v_cache'["njs"][1], v_df')]_vars

\* C5 witness: njs is cached with a non-empty inside and a non-empty outside
C5_Witness ==
    /\ v_cache # <<>> /\ v_cache["njs"] # <<>>
    /\ DOMAIN v_cache["njs"][1].nj # {}
    /\ DOMAIN v_cache["njs"][1].nnj # {}
    /\ is_partition(v_cache["njs"][1], v_df)

\* C6: every access of a view returns the view computed from the current
\* record set of the object, also after the record set was replaced.
C6_ViewsFollowDf ==
    v_ret # Unset =>
        /\ v_ret.exc = "none"
        /\ v_ret.val = get(v_ret.view, NoCache, v_df, v_box).val

\* radius is the square root of count, to SqrtScale-ths
is_sqrt(r, n) ==
    /\ r >= 0
    /\ r * r <= n * SqrtScale * SqrtScale
    /\ n * SqrtScale * SqrtScale < (r + 1) * (r + 1)

\* the rows of df sharing the lon, lat, severity of row id
sharing(df, id) == {x \in DOMAIN df : key(df[x]) = key(df[id])}

\* one output row per row of df, in order, with the row's own columns
one_row_each(h, df) ==
    /\ Len(h) = Cardinality(DOMAIN df)
    /\ \A n \in 1..Len(h) :
          LET id == order(DOMAIN df)[n]
          IN  /\ h[n].lat = df[id].lat /\ h[n].lon = df[id].lon
              /\ h[n].severity = df[id].severity
              /\ is_sqrt(h[n].radius, h[n].lls_count)

\* C7 as stated: one row per record, every count is the number of records
\* sharing the record's (lon, lat, severity), so at least 1, and radius is
\* the square root of the count
C7_CountIsGroupSize ==
    [][computed("ll_hist") =>
        LET h == v_cache'["ll_hist"][1]
        IN  /\ one_row_each(h, v_df')
            /\ \A n \in 1..Len(h) :
                  /\ h[n].lls_count = Cardinality(sharing(v_df', order(DOMAIN v_df')[n]))
                  /\ h[n].lls_count >= 1]_vars

\* C7 amended: one row per record and radius the square root of the count;
\* a record whose lon, lat and severity are present has the number of
\* records sharing its (lon, lat, severity) as count, at least 1; a record
\* with a missing lon, lat or severity has count 0
C7_CountIsGroupSizeUnlessNa ==
    [][computed("ll_hist") =>
        LET h == v_cache'["ll_hist"][1]
        IN  /\ one_row_each(h, v_df')
            /\ \A n \in 1..Len(h) :
                  LET id == order(DOMAIN v_df')[n]
                  IN  IF has_na(v_df'[id])
                      THEN h[n].lls_count = 0 /\ h[n].radius = 0
                      ELSE /\ h[n].lls_count = Cardinality(sharing(v_df', id))
                           /\ h[n].lls_count >= 1]_vars

\* C7 witness: ll_hist is cached and two records share a tuple, count 2 each
C7_Witness ==
    /\ v_cache # <<>> /\ v_cache["ll_hist"] # <<>>
    /\ Len(v_cache["ll_hist"][1]) = 2
    /\ \A n \in 1..2 : v_cache["ll_hist"][1][n].lls_count = 2
    /\ \A n \in 1..2 : v_cache["ll_hist"][1][n].radius > SqrtScale

---------------------------------------------------------------------------
\* C3: geocode_mp returns exactly one of the five outcomes, by precedence:
\* sri missing => "No SRI" (also when mp is missing); else mp missing =>
\* "No MP"; else sri not in the table => "SRI not found"; else no exact mp
\* key under the route => "MP didn't geocode"; otherwise the stored
\* coordinate.  The result has either lat/lon or a reason, never both, never
\* neither.
C3_GeocodeOutcome ==
    pc = "done" =>
        /\ DOMAIN g_out \in {{"reason"}, {"lat", "lon"}}
        /\ isna(g_r.sri) => g_out = [reason |-> "No SRI"]
        /\ (~isna(g_r.sri) /\ isna(g_r.mp)) => g_out = [reason |-> "No MP"]
        /\ (~isna(g_r.sri) /\ ~isna(g_r.mp) /\ val(g_r.sri) \notin DOMAIN g_sris)
              => g_out = [reason |-> "SRI not found"]
        /\ (~isna(g_r.sri) /\ ~isna(g_r.mp) /\ val(g_r.sri) \in DOMAIN g_sris)
              => IF val(g_r.mp) \in DOMAIN g_sris[val(g_r.sri)]
                 THEN /\ g_out.lat = g_sris[val(g_r.sri)][val(g_r.mp)].lat
                      /\ g_out.lon = g_sris[val(g_r.sri)][val(g_r.mp)].lon
                 ELSE g_out = [reason |-> "MP didn't geocode"]

\* C3 witness: both inputs missing and the call has returned a failure
C3_Witness ==
    /\ pc = "done"
    /\ isna(g_r.sri) /\ isna(g_r.mp)
    /\ "reason" \in DOMAIN g_out

=============================================================================
